---- MODULE Spec2Model ----
(***************************************************************************)
(* Model of the Windows Resource (.rc) converter of the Translate Toolkit: *)
(*   translate/storage/rc.py    escaper, rcfile.parse (extraction)         *)
(*   translate/convert/po2rc.py rerc (regeneration), convertrc             *)
(*                                                                         *)
(* Text is modelled as a sequence of characters.  The characters that the  *)
(* escaper treats specially are named atoms; every other character is an   *)
(* ordinary one-character string.                                          *)
(***************************************************************************)
EXTENDS Integers, Sequences, FiniteSets, TLC

VARIABLES
    \* ---- escaper (rc.escape_to_python / rc.escape_to_rc) ----
    string,         \* the argument of the first call
    cur,            \* the value returned by the last call
    calls,          \* the functions applied so far, in order
    \* ---- extraction (rc.rcfile) ----
    rc_lang,        \* rcfile.lang
    rc_sublang,     \* rcfile.sublang
    results,        \* parse: the statements searchString found in rcsrc
    stmt_i,         \* parse: position of the for loop in results
    processblocks,  \* parse: the processing flag
    units,          \* rcfile.units
    parse_raised,   \* parse: the exception that ended it, "" if none
    \* ---- regeneration (po2rc.convertrc, po2rc.rerc) ----
    inputstore,     \* convertrc: the units of po.pofile(inputfile)
    includefuzzy,   \* convertrc: argument
    rerc_lang,      \* convertrc: argument lang, then rerc.lang
    rerc_sublang,   \* convertrc: argument sublang, then rerc.sublang
    templatefile,   \* convertrc: argument, then rerc.templatefile
    outputthreshold,\* convertrc: argument
    conv_pc,        \* where the call of convertrc is
    inputdict,      \* rerc.inputdict
    template_read,  \* rerc.convertstore has read the template
    tmpl_i,         \* transformString: position in the statements of the template
    emitted,        \* transformString: the text returned for each statement so far
    outputfile,     \* the texts written to outputfile
    returned        \* what convertrc returned or raised, "" while it runs

escVars == <<string, cur, calls>>
parseVars == <<rc_lang, rc_sublang, results, stmt_i, processblocks, units, parse_raised>>
convVars == <<inputstore, includefuzzy, rerc_lang, rerc_sublang, templatefile, outputthreshold,
              conv_pc, inputdict, template_read, tmpl_i, emitted, outputfile, returned>>
vars == <<string, cur, calls,
          rc_lang, rc_sublang, results, stmt_i, processblocks, units, parse_raised,
          inputstore, includefuzzy, rerc_lang, rerc_sublang, templatefile, outputthreshold,
          conv_pc, inputdict, template_read, tmpl_i, emitted, outputfile, returned>>

(***************************************************************************)
(* Characters                                                              *)
(***************************************************************************)
BS    == "BS"      \* a backslash
NL    == "NL"      \* a real newline
TAB   == "TAB"     \* a real tab
QUOTE == "QUOTE"   \* a double quote

\* The characters the regular expression class \s matches, among the
\* characters of the model.
Whitespace == {NL, TAB, " "}

(***************************************************************************)
(* Bounds                                                                  *)
(***************************************************************************)
MaxLen == 3        \* longest string handed to the escaper

EscAlphabet == {BS, "n", "t", NL, TAB, "a", QUOTE}

RECURSIVE SeqsUpTo(_, _)
SeqsUpTo(S, n) ==
    IF n = 0 THEN {<<>>}
    ELSE LET shorter == SeqsUpTo(S, n - 1)
         IN  shorter \cup {Append(s, c) : s \in {t \in shorter : Len(t) = n - 1}, c \in S}

(***************************************************************************)
(* re.sub for the patterns the escaper uses.  re.sub scans left to right   *)
(* and replaces non-overlapping matches; the replaced text is not          *)
(* rescanned.                                                              *)
(***************************************************************************)
Tail2(s) == SubSeq(s, 3, Len(s))

\* re.sub of a two-character literal pattern <<a, b>> by the text repl.
RECURSIVE SubPair(_, _, _, _)
SubPair(a, b, repl, s) ==
    IF Len(s) = 0 THEN <<>>
    ELSE IF Len(s) >= 2 /\ s[1] = a /\ s[2] = b
         THEN repl \o SubPair(a, b, repl, Tail2(s))
         ELSE <<s[1]>> \o SubPair(a, b, repl, Tail(s))

\* re.sub of a one-character literal pattern by the text repl.
RECURSIVE SubChar(_, _, _)
SubChar(a, repl, s) ==
    IF Len(s) = 0 THEN <<>>
    ELSE (IF s[1] = a THEN repl ELSE <<s[1]>>) \o SubChar(a, repl, Tail(s))

\* The index of the first character at or after i that \s does not match
\* (Len(s) + 1 when there is none): where a greedy \s* starting at i ends.
RECURSIVE SkipWs(_, _)
SkipWs(s, i) ==
    IF i <= Len(s) /\ s[i] \in Whitespace THEN SkipWs(s, i + 1) ELSE i

\* The length of the match of  "\s*\\\n\s*"  at the start of s, 0 if none.
\* \s cannot match a backslash or a quote, so the greedy scan never has to
\* give characters back.
ContinuationMatchLen(s) ==
    IF Len(s) = 0 \/ s[1] # QUOTE THEN 0
    ELSE LET j == SkipWs(s, 2)
         IN  IF j + 1 > Len(s) \/ s[j] # BS \/ s[j + 1] # NL THEN 0
             ELSE LET k == SkipWs(s, j + 2)
                  IN  IF k > Len(s) \/ s[k] # QUOTE THEN 0 ELSE k

RECURSIVE SubContinuation(_)
SubContinuation(s) ==
    IF Len(s) = 0 THEN <<>>
    ELSE LET m == ContinuationMatchLen(s)
         IN  IF m > 0 THEN SubContinuation(SubSeq(s, m + 1, Len(s)))
             ELSE <<s[1]>> \o SubContinuation(Tail(s))

(***************************************************************************)
(* rc.escape_to_python and rc.escape_to_rc                                 *)
(***************************************************************************)
escape_to_python(str) ==
    LET p1 == SubContinuation(str)            \* xxx"\n"xxx line continuation
        p2 == SubPair(BS, NL, <<>>, p1)       \* backslash newline continuation
        p3 == SubPair(BS, "n", <<NL>>, p2)    \* escaped newline to a real newline
        p4 == SubPair(BS, "t", <<TAB>>, p3)   \* escaped tab to a real tab
        p5 == SubPair(BS, BS, <<BS>>, p4)     \* escaped backslash to a backslash
    IN  p5

escape_to_rc(str) ==
    LET r1 == SubChar(BS, <<BS, BS>>, str)
        r2 == SubChar(TAB, <<BS, "t">>, r1)
        r3 == SubChar(NL, <<BS, "n">>, r2)
    IN  r3

(***************************************************************************)
(* Parse results.  A statement is what rcfile.rc_statement() matched; a     *)
(* results name that the matched alternative does not set reads as empty,  *)
(* as pyparsing's ParseResults does ("" for a token, <<>> for text or a     *)
(* list).                                                                  *)
(***************************************************************************)
None == "None"     \* Python's None

Quoted(body) == <<QUOTE>> \o body \o <<QUOTE>>

\* s[1:-1]
StripQuotes(s) == SubSeq(s, 2, Len(s) - 1)

\* str.replace(" ", "_")
ReplaceSpaces(s) == [k \in 1..Len(s) |-> IF s[k] = " " THEN "_" ELSE s[k]]

LanguageStatement(language, sublanguage) ==
    [language |-> language, sublanguage |-> sublanguage, block_type |-> "",
     block_id |-> "", caption |-> <<>>, controls |-> <<>>, popups |-> <<>>]

BlockStatement(block_type, block_id, caption, controls, popups) ==
    [language |-> "", sublanguage |-> "", block_type |-> block_type,
     block_id |-> block_id, caption |-> caption, controls |-> controls,
     popups |-> popups]

\* A comment or a preprocessor line: no results name is set.
OtherStatement == BlockStatement("", "", <<>>, <<>>, <<>>)

Control(id_control, values_) == [id_control |-> id_control, values_ |-> values_]

MenuItem(values_) == [type |-> "MENUITEM", values_ |-> values_, popups |-> <<>>]

Popup(caption, elements) == [type |-> "POPUP", caption |-> caption, elements |-> elements]

\* Group(menu_item | popup_block) holding a nested popup_block.
PopupElement(popup) == [type |-> "", values_ |-> <<>>, popups |-> <<popup>>]

(***************************************************************************)
(* rcfile.parse: the units of one statement                                *)
(***************************************************************************)
\* The string literal that parse tests control identifiers against.
ControlNames ==
      <<"A", "U", "T", "O", "C", "H", "E", "C", "K", "B", "O", "X", " ">>
   \o <<"A", "U", "T", "O", "R", "A", "D", "I", "O", "B", "U", "T", "T", "O", "N", " ">>
   \o <<"C", "A", "P", "T", "I", "O", "N", " ">>
   \o <<"C", "H", "E", "C", "K", "B", "O", "X", " ">>
   \o <<"C", "T", "E", "X", "T", " ">>
   \o <<"C", "O", "N", "T", "R", "O", "L", " ">>
   \o <<"D", "E", "F", "P", "U", "S", "H", "B", "U", "T", "T", "O", "N", " ">>
   \o <<"G", "R", "O", "U", "P", "B", "O", "X", " ">>
   \o <<"L", "T", "E", "X", "T", " ">>
   \o <<"P", "U", "S", "H", "B", "U", "T", "T", "O", "N", " ">>
   \o <<"R", "A", "D", "I", "O", "B", "U", "T", "T", "O", "N", " ">>
   \o <<"R", "T", "E", "X", "T">>

\* Python's  a in b  for two strings: a occurs in b as a substring.
StrIn(a, b) == \E k \in 0..(Len(b) - Len(a)) : SubSeq(b, k + 1, k + Len(a)) = a

\* str.startswith for a one-character prefix
StartsWith(s, c) == Len(s) >= 1 /\ s[1] = c

\* rcunit(source) with .name and .match set.  match is the path of the parse
\* node in results: the statement's index, then the indices below it.
NewUnit(source, name, match) == [source |-> source, name |-> name, match |-> match]

\* base.TranslationStore.addunit
addunit(store, unit) == Append(store, unit)

\* The result of a walk that adds units and may raise.
Walked(store, raised) == [units |-> store, raised |-> raised]

\* Whether a control of a DIALOG/DIALOGEX block is translatable.
IsTranslatableControl(control) ==
    /\ StrIn(control.id_control, ControlNames)
    /\ (StartsWith(control.values_[1], QUOTE) \/ StartsWith(control.values_[1], "'"))

\* for control in statement.controls, from the k-th control on
RECURSIVE DialogControlUnits(_, _, _, _)
DialogControlUnits(store, statement, i, k) ==
    IF k > Len(statement.controls) THEN Walked(store, "")
    ELSE LET control == statement.controls[k]
         IN  IF IsTranslatableControl(control)
             THEN IF Len(control.values_) < 2
                  THEN Walked(store, "IndexError")       \* control.values_[1]
                  ELSE DialogControlUnits(
                         addunit(store,
                           NewUnit(escape_to_python(StripQuotes(control.values_[1])),
                                   <<statement.block_type, ".", statement.block_id, ".">>
                                     \o control.id_control \o <<".">> \o control.values_[2],
                                   <<i, k>>)),
                         statement, i, k + 1)
             ELSE DialogControlUnits(store, statement, i, k + 1)

\* The DIALOG/DIALOGEX branch of parse.
DialogUnits(store, statement, i) ==
    LET withCaption ==
            IF statement.caption # <<>>
            THEN addunit(store,
                   NewUnit(escape_to_python(StripQuotes(statement.caption)),
                           <<statement.block_type, ".", statement.block_id, ".", "CAPTION">>,
                           <<i>>))
            ELSE store
    IN  DialogControlUnits(withCaption, statement, i, 1)

RECURSIVE add_popup_units(_, _, _, _)
RECURSIVE PopupElementUnits(_, _, _, _, _)

\* PopupElementUnits that walks a nested popup under the name of the
\* enclosing one: the caption of the enclosing popup is not appended.
RECURSIVE PopupElementUnitsSamePrefix(_, _, _, _, _)
PopupElementUnitsSamePrefix(store, pre_name, popup, path, k) ==
    IF k > Len(popup.elements) THEN store
    ELSE LET element == popup.elements[k]
             after ==
               IF element.type = "MENUITEM"
               THEN IF Len(element.values_) >= 2
                    THEN addunit(store,
                           NewUnit(escape_to_python(StripQuotes(element.values_[1])),
                                   pre_name \o <<".", element.type, ".">> \o element.values_[2],
                                   Append(path, k)))
                    ELSE store
               ELSE IF Len(element.popups) > 0
                    THEN add_popup_units(store, pre_name, element.popups[1], Append(path, k))
                    ELSE store
         IN  PopupElementUnitsSamePrefix(after, pre_name, popup, path, k + 1)

\* rcfile.add_popup_units; path is the path of popup in results.
add_popup_units(store, pre_name, popup, path) ==
    LET withCaption ==
            IF popup.caption # <<>>
            THEN addunit(store,
                   NewUnit(escape_to_python(StripQuotes(popup.caption)),
                           pre_name \o <<".", "POPUP", ".", "CAPTION">>,
                           path))
            ELSE store
    IN  PopupElementUnits(withCaption, pre_name, popup, path, 1)

\* for element in popup.elements, from the k-th element on
PopupElementUnits(store, pre_name, popup, path, k) ==
    IF k > Len(popup.elements) THEN store
    ELSE LET element == popup.elements[k]
             after ==
               IF element.type = "MENUITEM"
               THEN IF Len(element.values_) >= 2
                    THEN addunit(store,
                           NewUnit(escape_to_python(StripQuotes(element.values_[1])),
                                   pre_name \o <<".", element.type, ".">> \o element.values_[2],
                                   Append(path, k)))
                    ELSE store                           \* it can be a separator
               ELSE IF Len(element.popups) > 0
                    THEN add_popup_units(store,
                           pre_name \o <<".">> \o ReplaceSpaces(StripQuotes(popup.caption)),
                           element.popups[1], Append(path, k))
                    ELSE store
         IN  PopupElementUnits(after, pre_name, popup, path, k + 1)

\* for popup in statement.popups, from the k-th popup on
RECURSIVE MenuUnits(_, _, _, _)
MenuUnits(store, statement, i, k) ==
    IF k > Len(statement.popups) THEN store
    ELSE MenuUnits(add_popup_units(store, <<statement.block_type, ".", statement.block_id>>,
                                   statement.popups[k], <<i, k>>),
                   statement, i, k + 1)

\* for text in statement.controls, from the k-th on
RECURSIVE StringTableUnits(_, _, _, _)
StringTableUnits(store, statement, i, k) ==
    IF k > Len(statement.controls) THEN store
    ELSE LET text == statement.controls[k]
         IN  StringTableUnits(
               addunit(store,
                 NewUnit(escape_to_python(StripQuotes(text.values_[1])),
                         <<"STRINGTABLE", ".">> \o text.id_control,
                         <<i, k>>)),
               statement, i, k + 1)

\* LanguageGate without its two else branches: a directive that does not
\* match leaves the flag as it was.
LanguageGateNoReset(old, statement, lang, sublang) ==
    IF lang = None \/ statement.language = lang
    THEN IF sublang = None \/ statement.sublanguage = sublang
         THEN TRUE
         ELSE old
    ELSE old

\* The branch of parse that a LANGUAGE directive takes: the new value of
\* processblocks.
LanguageGate(old, statement, lang, sublang) ==
    IF lang = None \/ statement.language = lang
    THEN IF sublang = None \/ statement.sublanguage = sublang
         THEN TRUE
         ELSE FALSE
    ELSE FALSE

(***************************************************************************)
(* Regeneration (po2rc.rerc).  The statements it rewrites are the parse    *)
(* results of rc.rc_statement(), read through the results names that the   *)
(* handlers of rerc use.                                                   *)
(***************************************************************************)
\* A value of a control: a token, or the list of the constants of a
\* combined-constants expression (is_iterable_but_not_string).
Token(s) == [iterable |-> FALSE, s |-> s, parts |-> <<>>]
Combined(parts) == [iterable |-> TRUE, s |-> <<>>, parts |-> parts]

TStatement(language, sublanguage, block_type, block_id, pre_caption, caption, post_caption, controls, popups, text) ==
    [language |-> language, sublanguage |-> sublanguage, block_type |-> block_type,
     block_id |-> block_id, pre_caption |-> pre_caption, caption |-> caption,
     post_caption |-> post_caption, controls |-> controls, popups |-> popups,
     text |-> text]

TLanguage(language, sublanguage) ==
    TStatement(language, sublanguage, "", <<>>, <<>>, <<>>, <<>>, <<>>, <<>>, <<>>)

TDialog(block_id, block_type, pre_caption, caption, post_caption, controls) ==
    TStatement("", "", block_type, block_id, pre_caption, caption, post_caption,
               controls, <<>>, <<>>)

TStringTable(post_caption, controls) ==
    TStatement("", "", "STRINGTABLE", <<>>, <<>>, <<>>, post_caption, controls, <<>>, <<>>)

TMenu(block_id, post_caption, popups) ==
    TStatement("", "", "MENU", block_id, <<>>, <<>>, post_caption, <<>>, popups, <<>>)

\* A comment or a preprocessor line, with its text.
TOther(text) ==
    TStatement("", "", "", <<>>, <<>>, <<>>, <<>>, <<>>, <<>>, text)

\* c[0] is the identifier, c[1:] the values
TControl(id_control, values_) == [id_control |-> id_control, values_ |-> values_]

TMenuItem(values_) == [block_type |-> "MENUITEM", values_ |-> values_, popups |-> <<>>]

TPopup(caption, post_caption, elements) ==
    [block_type |-> "POPUP", pre_caption |-> <<>>, caption |-> caption,
     post_caption |-> post_caption, elements |-> elements]

TPopupElement(popup) == [block_type |-> "", values_ |-> <<>>, popups |-> <<popup>>]

(***************************************************************************)
(* The translation map, rerc.inputdict: a set of entries, one per key      *)
(***************************************************************************)
Keys(dict) == {e.key : e \in dict}

Lookup(dict, key) == (CHOOSE e \in dict : e.key = key).value

\* dict[key] = value
SetItem(dict, key, value) ==
    {e \in dict : e.key # key} \cup {[key |-> key, value |-> value]}

\* len(s.strip()) == 0
IsBlank(s) == \A k \in 1..Len(s) : s[k] \in Whitespace

\* makestoredict's inner loop: for location in unit.getlocations()
RECURSIVE StoreLocations(_, _, _)
StoreLocations(dict, unit, k) ==
    IF k > Len(unit.locations) THEN dict
    ELSE LET rcstring == IF IsBlank(unit.target) THEN unit.source ELSE unit.target
         IN  StoreLocations(SetItem(dict, unit.locations[k], escape_to_rc(rcstring)),
                            unit, k + 1)

\* makestoredict that takes every unit, fuzzy or not.
RECURSIVE makestoredictAnyUnit(_, _, _, _)
makestoredictAnyUnit(dict, store_units, fuzzy_too, k) ==
    IF k > Len(store_units) THEN dict
    ELSE makestoredictAnyUnit(StoreLocations(dict, store_units[k], 1),
                              store_units, fuzzy_too, k + 1)

\* rerc.makestoredict, from the k-th unit of the store on
RECURSIVE makestoredict(_, _, _, _)
makestoredict(dict, store_units, fuzzy_too, k) ==
    IF k > Len(store_units) THEN dict
    ELSE LET unit == store_units[k]
         IN  makestoredict(IF fuzzy_too \/ ~unit.fuzzy
                           THEN StoreLocations(dict, unit, 1)
                           ELSE dict,
                           store_units, fuzzy_too, k + 1)

(***************************************************************************)
(* The names that regeneration looks up                                    *)
(***************************************************************************)
generate_dialog_caption_name(block_type, identifier) ==
    <<block_type, ".">> \o identifier \o <<".", "CAPTION">>

generate_dialog_control_name(block_type, block_id, control_type, identifier) ==
    <<block_type, ".">> \o block_id \o <<".">> \o control_type \o <<".">> \o identifier

generate_stringtable_name(identifier) == <<"STRINGTABLE", ".">> \o identifier

(***************************************************************************)
(* The handlers of rerc.  Each returns the text it emits, as the           *)
(* concatenation of the pieces of its list out, and the exception it       *)
(* raised, "" if none.                                                     *)
(***************************************************************************)
BLOCK_START == "BEGIN"
BLOCK_END == "END"

Emitted(out, raised) == [out |-> out, raised |-> raised]

Spaces(n) == [k \in 1..n |-> " "]

\* str.ljust(n)
LJust(s, n) == IF Len(s) >= n THEN s ELSE s \o Spaces(n - Len(s))

\* sep.join(items)
RECURSIVE Join(_, _)
Join(sep, items) ==
    IF Len(items) = 0 THEN <<>>
    ELSE IF Len(items) = 1 THEN items[1]
         ELSE items[1] \o sep \o Join(sep, Tail(items))

\* A value as convert_dialog writes it.
ValueText(v) == IF v.iterable THEN Join(<<" ", "|", " ">>, v.parts) ELSE v.s

\* The values of a control as convert_string_table joins them: tokens.
TokenTexts(values_) == [k \in 1..Len(values_) |-> values_[k].s]

\* The line of one control of a dialog, after the identifier column.
DialogControlValues(toks, c, dict) ==
    LET name == generate_dialog_control_name(toks.block_type, toks.block_id,
                                             c.id_control, c.values_[2].s)
        first == IF name \in Keys(dict)
                 THEN << <<QUOTE>>, Lookup(dict, name), <<QUOTE>> >>
                 ELSE << ValueText(c.values_[1]) >>
        others == [k \in 1..(Len(c.values_) - 1) |-> ValueText(c.values_[k + 1])]
    IN  Join(<<",">>, first \o others)

\* for c in toks.controls, from the k-th control on
RECURSIVE DialogControlLines(_, _, _, _)
DialogControlLines(out, toks, dict, k) ==
    IF k > Len(toks.controls) THEN Emitted(out, "")
    ELSE LET c == toks.controls[k]
             column == IF Len(c.id_control) >= 16
                       THEN c.id_control \o <<NL>> \o Spaces(16 + 4)
                       ELSE LJust(c.id_control, 16)
         IN  IF Len(c.values_) < 2
             THEN Emitted(out \o Spaces(4) \o column, "IndexError")    \* c.values_[1]
             ELSE DialogControlLines(
                    out \o Spaces(4) \o column \o DialogControlValues(toks, c, dict) \o <<NL>>,
                    toks, dict, k + 1)

\* The caption of a dialog written without a look at the translation map.
DialogCaptionTextOriginal(toks, dict) == toks.caption

\* The caption of a dialog as convert_dialog writes it.
DialogCaptionText(toks, dict) ==
    LET name == generate_dialog_caption_name(toks.block_type, toks.block_id)
    IN  IF name \in Keys(dict)
        THEN <<QUOTE>> \o Lookup(dict, name) \o <<QUOTE>>
        ELSE toks.caption

\* convert_dialog that leaves out the options after a caption it translated.
convert_dialogDropOptions(toks, dict) ==
    LET name == generate_dialog_caption_name(toks.block_type, toks.block_id)
        head == toks.block_id \o <<" ", toks.block_type>>
        options ==
            IF toks.caption # <<>>
            THEN <<" ">> \o toks.pre_caption \o <<"CAPTION ">>
                   \o DialogCaptionText(toks, dict)
                   \o (IF name \in Keys(dict) THEN <<>> ELSE toks.post_caption) \o <<NL>>
            ELSE <<" ">> \o toks.post_caption \o <<NL>>
        lines == DialogControlLines(head \o options \o <<BLOCK_START, NL>>, toks, dict, 1)
    IN  IF lines.raised # "" THEN lines
        ELSE Emitted(lines.out \o <<BLOCK_END>>, "")

\* rerc.convert_dialog
convert_dialog(toks, dict) ==
    LET head == toks.block_id \o <<" ", toks.block_type>>
        options ==
            IF toks.caption # <<>>
            THEN <<" ">> \o toks.pre_caption \o <<"CAPTION ">>
                   \o DialogCaptionText(toks, dict) \o toks.post_caption \o <<NL>>
            ELSE <<" ">> \o toks.post_caption \o <<NL>>
        lines == DialogControlLines(head \o options \o <<BLOCK_START, NL>>, toks, dict, 1)
    IN  IF lines.raised # "" THEN lines
        ELSE Emitted(lines.out \o <<BLOCK_END>>, "")

\* for c in toks.controls of a string table, from the k-th control on
RECURSIVE StringTableLines(_, _, _, _)
StringTableLines(out, toks, dict, k) ==
    IF k > Len(toks.controls) THEN out
    ELSE LET c == toks.controls[k]
             column == IF Len(c.id_control) >= 24
                       THEN c.id_control \o <<NL>> \o Spaces(24 + 4)
                       ELSE LJust(c.id_control, 24)
             name == generate_stringtable_name(c.id_control)
             texts == TokenTexts(c.values_)
             values_ == IF name \in Keys(dict)
                        THEN [texts EXCEPT ![1] = <<QUOTE>> \o Lookup(dict, name) \o <<QUOTE>>]
                        ELSE texts
         IN  StringTableLines(out \o Spaces(4) \o column \o Join(<<",">>, values_) \o <<NL>>,
                              toks, dict, k + 1)

\* rerc.convert_string_table
convert_string_table(toks, dict) ==
    Emitted(StringTableLines(<<toks.block_type>> \o toks.post_caption
                               \o <<NL, BLOCK_START, NL>>, toks, dict, 1)
              \o <<BLOCK_END>>,
            "")

\* rerc.convert_language
convert_language(lang, sublang) ==
    Emitted(<<"LANGUAGE ", lang>>
              \o (IF sublang # None /\ sublang # "" THEN <<", ", sublang>> ELSE <<>>),
            "")

\* The text of one MENUITEM of a popup without MENUITEM SEPARATOR: a
\* separator is written as an empty line.
MenuItemLineNoSeparator(element, identation) ==
    IF Len(element.values_) >= 2
    THEN Emitted(identation \o <<"    MENUITEM", " ">>
                   \o Join(<<",", " ">>, element.values_) \o <<NL>>, "")
    ELSE IF element.values_[1] = <<"SEPARATOR">>
         THEN Emitted(<<NL>>, "")
         ELSE Emitted(identation \o <<"    MENUITEM", " ">>, "NotImplementedError")

\* The MENUITEM branch of the loop of convert_popup.
MenuItemLine(element, identation) ==
    IF Len(element.values_) >= 2
    THEN Emitted(identation \o <<"    MENUITEM", " ">>
                   \o Join(<<",", " ">>, element.values_) \o <<NL>>, "")
    ELSE IF element.values_[1] = <<"SEPARATOR">>
         THEN Emitted(identation \o <<"    MENUITEM", " ", "SEPARATOR", NL>>, "")
         ELSE Emitted(identation \o <<"    MENUITEM", " ">>, "NotImplementedError")

\* rerc.convert_popup
RECURSIVE convert_popup(_, _)
RECURSIVE PopupElementLines(_, _, _, _)
convert_popup(popup, ident) ==
    LET identation == Spaces(4 * ident)
        head == identation \o <<popup.block_type>>
                  \o (IF popup.caption # <<>>
                      THEN <<" ">> \o popup.pre_caption \o popup.caption
                             \o popup.post_caption \o <<NL>>
                      ELSE <<" ">> \o popup.post_caption \o <<NL>>)
                  \o identation \o <<BLOCK_START, NL>>
        body == PopupElementLines(head, popup, ident, 1)
    IN  IF body.raised # "" THEN body
        ELSE Emitted(body.out \o identation \o <<BLOCK_END, NL>>, "")

\* for element in popup.elements, from the k-th element on
PopupElementLines(out, popup, ident, k) ==
    IF k > Len(popup.elements) THEN Emitted(out, "")
    ELSE LET element == popup.elements[k]
             this == IF element.block_type = "MENUITEM"
                     THEN MenuItemLine(element, Spaces(4 * ident))
                     ELSE IF Len(element.popups) > 0
                          THEN convert_popup(element.popups[1], ident + 1)
                          ELSE Emitted(<<>>, "")
         IN  IF this.raised # "" THEN Emitted(out \o this.out, this.raised)
             ELSE PopupElementLines(out \o this.out, popup, ident, k + 1)

\* for p in toks.popups, from the k-th popup on
RECURSIVE MenuPopupLines(_, _, _)
MenuPopupLines(out, toks, k) ==
    IF k > Len(toks.popups) THEN Emitted(out, "")
    ELSE LET this == convert_popup(toks.popups[k], 1)
         IN  IF this.raised # "" THEN Emitted(out \o this.out, this.raised)
             ELSE MenuPopupLines(out \o this.out, toks, k + 1)

\* rerc.convert_menu
convert_menu(toks) ==
    LET head == toks.block_id \o <<" ", toks.block_type>>
                  \o (IF toks.caption # <<>>
                      THEN <<" ">> \o toks.pre_caption \o <<"CAPTION ">> \o toks.caption
                             \o toks.post_caption \o <<NL>>
                      ELSE <<" ">> \o toks.post_caption \o <<NL>>)
                  \o <<BLOCK_START, NL>>
        body == MenuPopupLines(head, toks, 1)
    IN  IF body.raised # "" THEN body
        ELSE Emitted(body.out \o <<BLOCK_END>>, "")

\* rerc.translate_strings
translate_strings(toks, dict, lang, sublang) ==
    IF toks.language # "" THEN convert_language(lang, sublang)
    ELSE IF toks.block_type \in {"DIALOGEX", "DIALOG"} THEN convert_dialog(toks, dict)
    ELSE IF toks.block_type = "STRINGTABLE" THEN convert_string_table(toks, dict)
    ELSE IF toks.block_type = "MENU" THEN convert_menu(toks)
    ELSE Emitted(toks.text, "")

(***************************************************************************)
(* convertrc: what it does with its arguments before it converts           *)
(***************************************************************************)
\* outputthreshold=None, the default: no threshold (not threshold)
NoThreshold == 0

\* templatefile=None, and a template file that holds the given statements
NoTemplate == [none |-> TRUE, statements |-> <<>>]
TemplateFile(statements) == [none |-> FALSE, statements |-> statements]

\* pofile units that count as translated: a target and no fuzzy flag
IsTranslated(unit) == ~IsBlank(unit.target) /\ ~unit.fuzzy

\* convert.should_output_store
should_output_store(store_units, threshold) ==
    IF threshold = NoThreshold THEN TRUE
    ELSE LET total == Len(store_units)
             translated == Cardinality({k \in 1..total : IsTranslated(store_units[k])})
         IN  total > 0 /\ (translated * 100) \div total >= threshold

\* not lang
NotLang(lang) == lang = None \/ lang = ""

\* convertrc without its test of lang.
ConvertrcEntryAnyLang(store_units, threshold, lang, template) ==
    IF ~should_output_store(store_units, threshold) THEN "return False"
    ELSE IF template.none THEN "ValueError: template"
    ELSE "convertstore"

\* Lines 279-290 of convertrc: what the call does first.
ConvertrcEntry(store_units, threshold, lang, template) ==
    IF ~should_output_store(store_units, threshold) THEN "return False"
    ELSE IF NotLang(lang) THEN "ValueError: language"
    ELSE IF template.none THEN "ValueError: template"
    ELSE "convertstore"

(***************************************************************************)
(* Inputs of the extraction                                                *)
(***************************************************************************)
MaxStmts == 3      \* most statements in one RC source

LANG_ENGLISH == "LANG_ENGLISH"
LANG_FRENCH == "LANG_FRENCH"
SUBLANG_ENGLISH_US == "SUBLANG_ENGLISH_US"

LTEXT == <<"L", "T", "E", "X", "T">>
PUSHBUTTON == <<"P", "U", "S", "H", "B", "U", "T", "T", "O", "N">>
TEXT == <<"T", "E", "X", "T">>
ICON == <<"I", "C", "O", "N">>
IDS_OK == <<"I", "D", "S", "_", "O", "K">>

\* 100 DIALOGEX ... CAPTION "Hi" BEGIN LTEXT "a",1  LTEXT "b",1  ICON x,2 END
DialogTwoLabels ==
    BlockStatement("DIALOGEX", "100", Quoted(<<"H", "i">>),
        << Control(LTEXT, <<Quoted(<<"a">>), <<"1">>>>),
           Control(LTEXT, <<Quoted(<<"b">>), <<"1">>>>),
           Control(ICON, <<<<"x">>, <<"2">>>>) >>,
        <<>>)

\* 101 DIALOG ... BEGIN PUSHBUTTON "O\nK",1  TEXT "t",3 END
DialogNoCaption ==
    BlockStatement("DIALOG", "101", <<>>,
        << Control(PUSHBUTTON, <<Quoted(<<"O", BS, "n", "K">>), <<"1">>>>),
           Control(TEXT, <<Quoted(<<"t">>), <<"3">>>>) >>,
        <<>>)

\* 102 DIALOG ... CAPTION "Go" BEGIN LTEXT "x" END
DialogShortControl ==
    BlockStatement("DIALOG", "102", Quoted(<<"G", "o">>),
        << Control(LTEXT, <<Quoted(<<"x">>)>>) >>,
        <<>>)

\* 200 MENU BEGIN
\*   POPUP "F" BEGIN MENUITEM "E",9  MENUITEM SEPARATOR
\*                   POPUP "R f" BEGIN MENUITEM "X",8 END END
\*   POPUP "E" BEGIN MENUITEM "C",7 END
\* END
MenuTwoPopups ==
    BlockStatement("MENU", "200", <<>>, <<>>,
        << Popup(Quoted(<<"F">>),
             << MenuItem(<<Quoted(<<"E">>), <<"9">>>>),
                MenuItem(<<<<"SEPARATOR">>>>),
                PopupElement(Popup(Quoted(<<"R", " ", "f">>),
                               << MenuItem(<<Quoted(<<"X">>), <<"8">>>>) >>)) >>),
           Popup(Quoted(<<"E">>),
             << MenuItem(<<Quoted(<<"C">>), <<"7">>>>) >>) >>)

\* 201 MENU BEGIN
\*   POPUP "A b" BEGIN
\*     POPUP "C" BEGIN
\*       POPUP "D" BEGIN MENUITEM "X",5 END
\*       MENUITEM SEPARATOR
\*       MENUITEM "Y",6
\*     END
\*   END
\*   POPUP BEGIN MENUITEM "Z",4 END
\* END
MenuDeep ==
    BlockStatement("MENU", "201", <<>>, <<>>,
        << Popup(Quoted(<<"A", " ", "b">>),
             << PopupElement(Popup(Quoted(<<"C">>),
                  << PopupElement(Popup(Quoted(<<"D">>),
                       << MenuItem(<<Quoted(<<"X">>), <<"5">>>>) >>)),
                     MenuItem(<<<<"SEPARATOR">>>>),
                     MenuItem(<<Quoted(<<"Y">>), <<"6">>>>) >>)) >>),
           Popup(<<>>,
             << MenuItem(<<Quoted(<<"Z">>), <<"4">>>>) >>) >>)

\* STRINGTABLE BEGIN IDS_OK "OK" END
StringTableOk ==
    BlockStatement("STRINGTABLE", "", <<>>,
        << Control(IDS_OK, <<Quoted(<<"O", "K">>)>>) >>,
        <<>>)

StatementPool ==
    { LanguageStatement(LANG_ENGLISH, ""),
      LanguageStatement(LANG_ENGLISH, SUBLANG_ENGLISH_US),
      LanguageStatement(LANG_FRENCH, ""),
      DialogTwoLabels, DialogNoCaption, DialogShortControl,
      MenuTwoPopups, MenuDeep, StringTableOk, OtherStatement }

(***************************************************************************)
(* Inputs of the regeneration                                              *)
(***************************************************************************)
MaxUnits == 2      \* most units in one catalog
MaxTemplate == 2   \* most statements in one template

SUBLANG_FRENCH == "SUBLANG_FRENCH"

KeyDialogCaption == <<"DIALOGEX", ".", "100", ".", "CAPTION">>
KeyDialogLabel == <<"DIALOGEX", ".", "100", ".">> \o LTEXT \o <<".", "1">>
KeyPopupCaption == <<"MENU", ".", "200", ".", "POPUP", ".", "CAPTION">>
KeyStringOk == <<"STRINGTABLE", ".">> \o IDS_OK

POUnit(source, target, fuzzy, locations) ==
    [source |-> source, target |-> target, fuzzy |-> fuzzy, locations |-> locations]

UnitCaption == POUnit(<<"H", "i">>, <<"B", "o">>, FALSE, <<KeyDialogCaption>>)
UnitLabel == POUnit(<<"a">>, <<"A", TAB>>, FALSE, <<KeyDialogLabel>>)
UnitPopup == POUnit(<<"F">>, <<"D">>, FALSE, <<KeyPopupCaption>>)
UnitPopupFuzzy == POUnit(<<"F">>, <<"X">>, TRUE, <<KeyPopupCaption>>)
UnitOkBlank == POUnit(<<"O", "K">>, <<" ">>, FALSE, <<KeyStringOk>>)
UnitTwoPlacesFuzzy == POUnit(<<"H", "i">>, <<"S">>, TRUE, <<KeyDialogCaption, KeyStringOk>>)

UnitPool == {UnitCaption, UnitLabel, UnitPopup, UnitPopupFuzzy, UnitOkBlank, UnitTwoPlacesFuzzy}

FullCatalog == <<UnitCaption, UnitLabel, UnitPopup, UnitOkBlank>>

\* 100 DIALOGEX 0,0,9,9
\* STYLE WS_POPUP
\* CAPTION "Hi"
\* FONT 8 BEGIN LTEXT "a",1,WS_A | WS_B  ICON x,2 END
TDialogTwoControls ==
    TDialog(<<"100">>, "DIALOGEX",
        <<"0,0,9,9", NL, "STYLE", " ", "WS_POPUP", NL>>,
        Quoted(<<"H", "i">>),
        <<NL, "FONT", " ", "8">>,
        << TControl(LTEXT, <<Token(Quoted(<<"a">>)), Token(<<"1">>),
                             Combined(<< <<"WS_A">>, <<"WS_B">> >>)>>),
           TControl(ICON, <<Token(<<"x">>), Token(<<"2">>)>>) >>)

\* 101 DIALOG 0,0,5,5 BEGIN PUSHBUTTON "OK",1 END
TDialogNoCaption ==
    TDialog(<<"101">>, "DIALOG", <<>>, <<>>, <<"0,0,5,5">>,
        << TControl(PUSHBUTTON, <<Token(Quoted(<<"O", "K">>)), Token(<<"1">>)>>) >>)

\* 102 DIALOG 0,0,5,5 CAPTION "Go" BEGIN LTEXT "x" END
TDialogShortControl ==
    TDialog(<<"102">>, "DIALOG", <<"0,0,5,5", " ">>, Quoted(<<"G", "o">>), <<>>,
        << TControl(LTEXT, <<Token(Quoted(<<"x">>))>>) >>)

\* 200 MENU BEGIN
\*   POPUP "F" BEGIN MENUITEM "E",9  MENUITEM SEPARATOR
\*                   POPUP "R" BEGIN MENUITEM "X",8,GRAYED END
\*                   MENUITEM "Q",6 END
\*   POPUP "E" BEGIN MENUITEM "C",7 END
\* END
TMenuTwoPopups ==
    TMenu(<<"200">>, <<>>,
        << TPopup(Quoted(<<"F">>), <<>>,
             << TMenuItem(<<Quoted(<<"E">>), <<"9">>>>),
                TMenuItem(<<<<"SEPARATOR">>>>),
                TPopupElement(TPopup(Quoted(<<"R">>), <<>>,
                    << TMenuItem(<<Quoted(<<"X">>), <<"8">>, <<"GRAYED">>>>) >>)),
                TMenuItem(<<Quoted(<<"Q">>), <<"6">>>>) >>),
           TPopup(Quoted(<<"E">>), <<>>,
             << TMenuItem(<<Quoted(<<"C">>), <<"7">>>>) >>) >>)

\* 201 MENU BEGIN POPUP "F" BEGIN MENUITEM "E",9  MENUITEM "Q" END END
TMenuShortItem ==
    TMenu(<<"201">>, <<>>,
        << TPopup(Quoted(<<"F">>), <<>>,
             << TMenuItem(<<Quoted(<<"E">>), <<"9">>>>),
                TMenuItem(<<Quoted(<<"Q">>)>>) >>) >>)

\* STRINGTABLE BEGIN IDS_OK "OK" END
TStringTableOk ==
    TStringTable(<<>>, << TControl(IDS_OK, <<Token(Quoted(<<"O", "K">>))>>) >>)

TemplatePool ==
    { TLanguage(LANG_ENGLISH, SUBLANG_ENGLISH_US),
      TLanguage(LANG_FRENCH, ""),
      TDialogTwoControls, TDialogNoCaption, TDialogShortControl,
      TMenuTwoPopups, TMenuShortItem, TStringTableOk,
      TOther(<<"/", "/", "c">>) }

(***************************************************************************)
(* The values of the variables of a part of the program that a            *)
(* specification does not run.                                             *)
(***************************************************************************)
IdleEsc ==
    /\ string = <<>>
    /\ cur = <<>>
    /\ calls = <<>>

IdleParse ==
    /\ rc_lang = None
    /\ rc_sublang = None
    /\ results = <<>>
    /\ stmt_i = 1
    /\ processblocks = FALSE
    /\ units = <<>>
    /\ parse_raised = ""

IdleConv ==
    /\ inputstore = <<>>
    /\ includefuzzy = FALSE
    /\ rerc_lang = None
    /\ rerc_sublang = None
    /\ templatefile = NoTemplate
    /\ outputthreshold = NoThreshold
    /\ conv_pc = "convertrc"
    /\ inputdict = {}
    /\ template_read = FALSE
    /\ tmpl_i = 1
    /\ emitted = <<>>
    /\ outputfile = <<>>
    /\ returned = ""

(***************************************************************************)
(* The escaper as a state machine: a caller applies the two functions, one *)
(* to the result of the other.                                             *)
(***************************************************************************)
MaxCalls == 2

InitEsc ==
    /\ string \in SeqsUpTo(EscAlphabet, MaxLen)
    /\ cur = string
    /\ calls = <<>>
    /\ IdleParse
    /\ IdleConv

CallEscapeToRc ==
    /\ Len(calls) < MaxCalls
    /\ cur' = escape_to_rc(cur)
    /\ calls' = Append(calls, "escape_to_rc")
    /\ UNCHANGED <<string, parseVars, convVars>>

CallEscapeToPython ==
    /\ Len(calls) < MaxCalls
    /\ cur' = escape_to_python(cur)
    /\ calls' = Append(calls, "escape_to_python")
    /\ UNCHANGED <<string, parseVars, convVars>>

NextEsc == CallEscapeToRc \/ CallEscapeToPython

SpecEsc == InitEsc /\ [][NextEsc]_vars

(***************************************************************************)
(* rcfile(inputfile, lang, sublang): the constructor stores the selector   *)
(* and calls parse; each action is one iteration of parse's loop over the  *)
(* statements.                                                             *)
(***************************************************************************)
InitParse ==
    /\ rc_lang \in {None, LANG_ENGLISH, LANG_FRENCH}
    /\ rc_sublang \in {None, SUBLANG_ENGLISH_US}
    /\ results \in SeqsUpTo(StatementPool, MaxStmts)
    /\ stmt_i = 1
    /\ processblocks = FALSE
    /\ units = <<>>
    /\ parse_raised = ""
    /\ IdleEsc
    /\ IdleConv

ParseRunning == stmt_i <= Len(results) /\ parse_raised = ""

ParseDone == stmt_i > Len(results) /\ parse_raised = ""

ParseLanguage ==
    /\ ParseRunning
    /\ results[stmt_i].language # ""
    /\ processblocks' = LanguageGate(processblocks, results[stmt_i], rc_lang, rc_sublang)
    /\ stmt_i' = stmt_i + 1
    /\ UNCHANGED <<rc_lang, rc_sublang, results, units, parse_raised, escVars, convVars>>

ParseDialog ==
    /\ ParseRunning
    /\ results[stmt_i].language = ""
    /\ processblocks
    /\ results[stmt_i].block_type \in {"DIALOG", "DIALOGEX"}
    /\ LET walked == DialogUnits(units, results[stmt_i], stmt_i)
       IN  /\ units' = walked.units
           /\ parse_raised' = walked.raised
           /\ stmt_i' = IF walked.raised = "" THEN stmt_i + 1 ELSE stmt_i
    /\ UNCHANGED <<rc_lang, rc_sublang, results, processblocks, escVars, convVars>>

ParseMenu ==
    /\ ParseRunning
    /\ results[stmt_i].language = ""
    /\ processblocks
    /\ results[stmt_i].block_type = "MENU"
    /\ units' = MenuUnits(units, results[stmt_i], stmt_i, 1)
    /\ stmt_i' = stmt_i + 1
    /\ UNCHANGED <<rc_lang, rc_sublang, results, processblocks, parse_raised, escVars, convVars>>

ParseStringTable ==
    /\ ParseRunning
    /\ results[stmt_i].language = ""
    /\ processblocks
    /\ results[stmt_i].block_type = "STRINGTABLE"
    /\ units' = StringTableUnits(units, results[stmt_i], stmt_i, 1)
    /\ stmt_i' = stmt_i + 1
    /\ UNCHANGED <<rc_lang, rc_sublang, results, processblocks, parse_raised, escVars, convVars>>

\* A statement that is neither a LANGUAGE directive nor a block met while
\* processblocks is true: the loop goes on to the next statement.
ParseSkip ==
    /\ ParseRunning
    /\ results[stmt_i].language = ""
    /\ ~(processblocks /\ results[stmt_i].block_type # "")
    /\ stmt_i' = stmt_i + 1
    /\ UNCHANGED <<rc_lang, rc_sublang, results, processblocks, units, parse_raised, escVars, convVars>>

NextParse == ParseLanguage \/ ParseDialog \/ ParseMenu \/ ParseStringTable \/ ParseSkip

SpecParse == InitParse /\ [][NextParse]_vars

(***************************************************************************)
(* convertrc(inputfile, outputfile, templatefile, includefuzzy, charset,   *)
(* lang, sublang, outputthreshold)                                         *)
(***************************************************************************)
\* The catalogs of the runs that vary the catalog.
Catalogs == SeqsUpTo(UnitPool, MaxUnits)

\* The templates of the runs that vary the template.
Templates == {TemplateFile(t) : t \in SeqsUpTo(TemplatePool, MaxTemplate)}

InitConvert ==
    /\ \/ /\ inputstore \in Catalogs
          /\ includefuzzy \in BOOLEAN
          /\ templatefile \in {NoTemplate, TemplateFile(<<TDialogTwoControls>>)}
          /\ rerc_sublang = None
          /\ outputthreshold \in {NoThreshold, 50, 100}
       \/ /\ inputstore \in {<<>>, FullCatalog}
          /\ includefuzzy = FALSE
          /\ templatefile \in {NoTemplate} \cup Templates
          /\ rerc_sublang \in {None, SUBLANG_FRENCH}
          /\ outputthreshold \in {NoThreshold, 100}
    /\ rerc_lang \in {None, LANG_FRENCH}
    /\ conv_pc = "convertrc"
    /\ inputdict = {}
    /\ template_read = FALSE
    /\ tmpl_i = 1
    /\ emitted = <<>>
    /\ outputfile = <<>>
    /\ returned = ""
    /\ IdleEsc
    /\ IdleParse

convArgs == <<inputstore, includefuzzy, rerc_lang, rerc_sublang, templatefile, outputthreshold>>

Entry == ConvertrcEntry(inputstore, outputthreshold, rerc_lang, templatefile)

\* should_output_store said no: return False
ConvertrcSkipOutput ==
    /\ conv_pc = "convertrc"
    /\ Entry = "return False"
    /\ returned' = "False"
    /\ conv_pc' = "done"
    /\ UNCHANGED <<convArgs, inputdict, template_read, tmpl_i, emitted, outputfile,
                   escVars, parseVars>>

\* raise ValueError("must specify a target language")
ConvertrcMissingLanguage ==
    /\ conv_pc = "convertrc"
    /\ Entry = "ValueError: language"
    /\ returned' = "ValueError: must specify a target language"
    /\ conv_pc' = "done"
    /\ UNCHANGED <<convArgs, inputdict, template_read, tmpl_i, emitted, outputfile,
                   escVars, parseVars>>

\* raise ValueError("must have template file for rc files")
ConvertrcMissingTemplate ==
    /\ conv_pc = "convertrc"
    /\ Entry = "ValueError: template"
    /\ returned' = "ValueError: must have template file for rc files"
    /\ conv_pc' = "done"
    /\ UNCHANGED <<convArgs, inputdict, template_read, tmpl_i, emitted, outputfile,
                   escVars, parseVars>>

\* convertor = rerc(templatefile, charset, lang, sublang)
ConvertrcNewRerc ==
    /\ conv_pc = "convertrc"
    /\ Entry = "convertstore"
    /\ inputdict' = {}
    /\ conv_pc' = "convertstore"
    /\ UNCHANGED <<convArgs, template_read, tmpl_i, emitted, outputfile, returned,
                   escVars, parseVars>>

\* rerc.convertstore up to the start of transformString: makestoredict, then
\* the template is read.
ConvertstoreBegin ==
    /\ conv_pc = "convertstore"
    /\ inputdict' = makestoredict(inputdict, inputstore, includefuzzy, 1)
    /\ template_read' = TRUE
    /\ conv_pc' = "transform"
    /\ UNCHANGED <<convArgs, tmpl_i, emitted, outputfile, returned, escVars, parseVars>>

\* transformString: the parse action translate_strings runs on the next
\* statement of the template; an exception of the handler ends convertrc.
TranslateStatement ==
    /\ conv_pc = "transform"
    /\ tmpl_i <= Len(templatefile.statements)
    /\ LET e == translate_strings(templatefile.statements[tmpl_i], inputdict,
                                  rerc_lang, rerc_sublang)
       IN  IF e.raised = ""
           THEN /\ emitted' = Append(emitted, e.out)
                /\ tmpl_i' = tmpl_i + 1
                /\ UNCHANGED <<conv_pc, returned>>
           ELSE /\ returned' = e.raised
                /\ conv_pc' = "done"
                /\ UNCHANGED <<emitted, tmpl_i>>
    /\ UNCHANGED <<convArgs, inputdict, template_read, outputfile, escVars, parseVars>>

\* outputfile.write(outputrclines...); return 1
ConvertrcWrite ==
    /\ conv_pc = "transform"
    /\ tmpl_i > Len(templatefile.statements)
    /\ outputfile' = Append(outputfile, Join(<<>>, emitted))
    /\ returned' = "1"
    /\ conv_pc' = "done"
    /\ UNCHANGED <<convArgs, inputdict, template_read, tmpl_i, emitted, escVars, parseVars>>

NextConvert ==
    \/ ConvertrcSkipOutput
    \/ ConvertrcMissingLanguage
    \/ ConvertrcMissingTemplate
    \/ ConvertrcNewRerc
    \/ ConvertstoreBegin
    \/ TranslateStatement
    \/ ConvertrcWrite

SpecConvert == InitConvert /\ [][NextConvert]_vars

(***************************************************************************)
(* Properties of the escaper                                               *)
(***************************************************************************)
\* The plain-text alphabet: backslash, n, t, newline, tab, an ordinary character.
IsPlainText(s) == \A k \in 1..Len(s) : s[k] \in {BS, "n", "t", NL, TAB, "a"}

\* s holds a line-continuation sequence: quote, whitespace, backslash,
\* newline, whitespace, quote, or a bare backslash followed by a newline.
HasContinuation(s) ==
    \E k \in 1..Len(s) :
        \/ ContinuationMatchLen(SubSeq(s, k, Len(s))) > 0
        \/ (k < Len(s) /\ s[k] = BS /\ s[k + 1] = NL)

\* s is the body of an RC literal written with the escapes of the format:
\* ordinary characters and the sequences \\, \n and \t.
RECURSIVE IsEscapedLiteral(_)
IsEscapedLiteral(s) ==
    IF Len(s) = 0 THEN TRUE
    ELSE IF s[1] = BS
         THEN Len(s) >= 2 /\ s[2] \in {BS, "n", "t"} /\ IsEscapedLiteral(Tail2(s))
         ELSE s[1] \notin {NL, TAB, QUOTE} /\ IsEscapedLiteral(Tail(s))

\* C1: for every plain-text string x without a line-continuation sequence,
\* escape_to_python(escape_to_rc(x)) = x, also when a backslash is directly
\* followed by the letter n or t.
C1_PlainRoundTrip ==
    (/\ calls = <<"escape_to_rc", "escape_to_python">>
     /\ IsPlainText(string)
     /\ ~HasContinuation(string))
    => cur = string

\* C2: for every RC literal body x without a line-continuation sequence,
\* escape_to_rc(escape_to_python(x)) = x.
C2_LiteralRoundTrip ==
    (/\ calls = <<"escape_to_python", "escape_to_rc">>
     /\ IsEscapedLiteral(string)
     /\ ~HasContinuation(string))
    => cur = string

(***************************************************************************)
(* Properties of the extraction                                            *)
(***************************************************************************)
IsDirective(statement) == statement.language # ""

\* The directive agrees with the selector of the rcfile.
DirectiveMatches(statement) ==
    /\ (rc_lang = None \/ statement.language = rc_lang)
    /\ (rc_sublang = None \/ statement.sublanguage = rc_sublang)

\* What the flag must be once the first n statements are behind: false
\* before any directive, else whether the last directive matched.
ExpectedFlag(n) ==
    LET directives == {k \in 1..n : IsDirective(results[k])}
    IN  IF directives = {} THEN FALSE
        ELSE DirectiveMatches(results[CHOOSE k \in directives : \A m \in directives : m <= k])

\* C3: the processing flag starts false and after each LANGUAGE directive is
\* true iff the directive matches the selector (language unset or equal, and
\* sublanguage unset or equal); a unit comes only from a block that was
\* reached while the flag was true.
C3_LanguageGate ==
    /\ processblocks = ExpectedFlag(stmt_i - 1)
    /\ \A u \in 1..Len(units) : ExpectedFlag(units[u].match[1] - 1)

\* A matching directive, later a directive that does not match, later a
\* captioned dialog: the scan is over and the dialog gave no unit.
C3_Witness ==
    /\ ParseDone
    /\ \E i, j, k \in 1..Len(results) :
        /\ i < j /\ j < k
        /\ IsDirective(results[i]) /\ DirectiveMatches(results[i])
        /\ IsDirective(results[j]) /\ ~DirectiveMatches(results[j])
        /\ results[k] = DialogTwoLabels
        /\ \A u \in 1..Len(units) : units[u].match[1] # k

\* C4: extraction never silently produces two units with the same location
\* identifier: when two strings compute the same identifier, an
\* AmbiguousIdentifier error is surfaced.
C4_AmbiguousIdentifierSurfaced ==
    (\E a, b \in 1..Len(units) : a # b /\ units[a].name = units[b].name)
    => parse_raised = "AmbiguousIdentifier"

(***************************************************************************)
(* Reading the regenerated text                                            *)
(***************************************************************************)
IsPrefix(a, t) == Len(a) <= Len(t) /\ SubSeq(t, 1, Len(a)) = a

IsSuffix(b, t) == Len(b) <= Len(t) /\ SubSeq(t, Len(t) - Len(b) + 1, Len(t)) = b

\* The index of the first occurrence of the atom in t, 0 if there is none.
IndexOf(atom, t) ==
    IF \E k \in 1..Len(t) : t[k] = atom
    THEN CHOOSE k \in 1..Len(t) : t[k] = atom /\ \A m \in 1..(k - 1) : t[m] # atom
    ELSE 0

\* The lines of t: the runs of characters between newlines.
RECURSIVE SplitLines(_)
SplitLines(t) ==
    LET n == IndexOf(NL, t)
    IN  IF n = 0 THEN <<t>>
        ELSE <<SubSeq(t, 1, n - 1)>> \o SplitLines(SubSeq(t, n + 1, Len(t)))

\* The number of spaces a line starts with, and the line without them.
RECURSIVE Indent(_)
Indent(line) == IF Len(line) > 0 /\ line[1] = " " THEN 1 + Indent(Tail(line)) ELSE 0

Unindented(line) == SubSeq(line, Indent(line) + 1, Len(line))

\* The text of a block up to its BEGIN.
HeaderOf(t) == SubSeq(t, 1, IndexOf(BLOCK_START, t) - 1)

\* The lines of a block between its BEGIN line and its END.
BodyLinesOf(t) ==
    LET body == SubSeq(t, IndexOf(BLOCK_START, t) + 2, Len(t))
        lines == SplitLines(body)
    IN  SubSeq(lines, 1, Len(lines) - 1)

IsDialog(toks) == toks.block_type \in {"DIALOG", "DIALOGEX"}

IsMenu(toks) == toks.block_type = "MENU"

Statements == templatefile.statements

(***************************************************************************)
(* Properties of the regeneration of MENU blocks                           *)
(***************************************************************************)
\* The captioned popups below popup, each with the key of its caption.
RECURSIVE CaptionedPopups(_, _)
CaptionedPopups(popup, pre_name) ==
    (IF popup.caption # <<>>
     THEN {[key |-> pre_name \o <<".", "POPUP", ".", "CAPTION">>, caption |-> popup.caption]}
     ELSE {})
    \cup UNION { CaptionedPopups(popup.elements[k].popups[1],
                                 pre_name \o <<".">> \o ReplaceSpaces(StripQuotes(popup.caption)))
                 : k \in {m \in 1..Len(popup.elements) : Len(popup.elements[m].popups) > 0} }

MenuCaptionedPopups(toks) ==
    UNION { CaptionedPopups(toks.popups[k], <<"MENU", ".">> \o toks.block_id)
            : k \in 1..Len(toks.popups) }

\* C5: in a regenerated MENU block every captioned POPUP whose location
\* <prefix>.POPUP.CAPTION is a key of the translation map has the translated
\* text in its header in place of the caption; without the key the header
\* has the original caption.
C5_PopupCaptionTranslated ==
    \A j \in 1..Len(emitted) :
        IsMenu(Statements[j]) =>
            \A p \in MenuCaptionedPopups(Statements[j]) :
                IF p.key \in Keys(inputdict)
                THEN StrIn(<<"POPUP", " ", QUOTE>> \o Lookup(inputdict, p.key) \o <<QUOTE, NL>>,
                           emitted[j])
                ELSE StrIn(<<"POPUP", " ">> \o p.caption \o <<NL>>, emitted[j])

\* What a menu holds, in source order: a popup opens, an item, a popup
\* closes, each with the nesting depth of the popup it belongs to.
Event(e, depth, text) == [e |-> e, depth |-> depth, text |-> text]

ItemText(values_) ==
    IF values_ = <<<<"SEPARATOR">>>> THEN <<"SEPARATOR">> ELSE Join(<<",", " ">>, values_)

RECURSIVE PopupEvents(_, _)
RECURSIVE ElementEvents(_, _, _)
PopupEvents(popup, depth) ==
    <<Event("open", depth, <<>>)>> \o ElementEvents(popup, depth, 1)
        \o <<Event("close", depth, <<>>)>>

ElementEvents(popup, depth, k) ==
    IF k > Len(popup.elements) THEN <<>>
    ELSE LET element == popup.elements[k]
         IN  (IF element.block_type = "MENUITEM"
              THEN <<Event("item", depth, ItemText(element.values_))>>
              ELSE PopupEvents(element.popups[1], depth + 1))
             \o ElementEvents(popup, depth, k + 1)

RECURSIVE MenuEvents(_, _)
MenuEvents(toks, k) ==
    IF k > Len(toks.popups) THEN <<>>
    ELSE PopupEvents(toks.popups[k], 1) \o MenuEvents(toks, k + 1)

\* The same, read from the lines of a regenerated block: four spaces of
\* indentation per nesting level.
LineEvents(line) ==
    LET body == Unindented(line)
        depth == Indent(line) \div 4
    IN  IF Len(body) = 0 \/ depth = 0 THEN <<>>
        ELSE IF body[1] = "POPUP" THEN <<Event("open", depth, <<>>)>>
        ELSE IF body[1] = BLOCK_END THEN <<Event("close", depth, <<>>)>>
        ELSE IF body[1] = "    MENUITEM" /\ Len(body) >= 2 /\ body[2] = " "
             THEN <<Event("item", depth, SubSeq(body, 3, Len(body)))>>
        ELSE IF body[1] = BLOCK_START THEN <<>>
        ELSE <<Event("other", depth, body)>>

RECURSIVE LinesEvents(_)
LinesEvents(lines) ==
    IF Len(lines) = 0 THEN <<>>
    ELSE LineEvents(lines[1]) \o LinesEvents(Tail(lines))

\* A blank line inside a block is no line of a menu.
HasBlankBodyLine(t) == \E k \in 1..Len(BodyLinesOf(t)) : BodyLinesOf(t)[k] = <<>>

EmittedMenuEvents(t) == LinesEvents(SplitLines(t))

\* Some MENUITEM at or below popup has a single value that is not SEPARATOR.
RECURSIVE HasShortItem(_)
HasShortItem(popup) ==
    \E k \in 1..Len(popup.elements) :
        LET element == popup.elements[k]
        IN  IF element.block_type = "MENUITEM"
            THEN Len(element.values_) < 2 /\ element.values_ # <<<<"SEPARATOR">>>>
            ELSE HasShortItem(element.popups[1])

MenuHasShortItem(toks) == \E k \in 1..Len(toks.popups) : HasShortItem(toks.popups[k])

\* translate_strings has run on the j-th statement of the template.
Handled(j) ==
    template_read /\ (j < tmpl_i \/ (j = tmpl_i /\ conv_pc = "done" /\ returned # "1"))

HeadOptions(toks) ==
    toks.block_id \o <<" ", toks.block_type, " ">> \o toks.pre_caption \o <<"CAPTION ">>

TailOptions(toks) == toks.post_caption \o <<NL>>

\* The caption that the regenerated header t of a captioned dialog holds:
\* what stands between the two runs of options.
EmittedCaption(toks, t) ==
    SubSeq(HeaderOf(t), Len(HeadOptions(toks)) + 1,
           Len(HeaderOf(t)) - Len(TailOptions(toks)))

SelectorMatches(toks) ==
    /\ toks.language = rerc_lang
    /\ (rerc_sublang = None \/ toks.sublanguage = rerc_sublang)

\* The j-th statement follows a LANGUAGE directive, and the last one before
\* it does not match the selector.
FollowsOtherLanguage(j) ==
    LET directives == {k \in 1..(j - 1) : Statements[k].language # ""}
    IN  /\ directives # {}
        /\ ~SelectorMatches(Statements[CHOOSE k \in directives : \A m \in directives : m <= k])

\* The line of the k-th control of the regenerated dialog t, after the
\* identifier column.
EmittedControlValues(toks, t, k) ==
    LET line == BodyLinesOf(t)[k]
    IN  SubSeq(line, 4 + 16 + 1, Len(line))

ControlKey(toks, k) ==
    <<toks.block_type, ".">> \o toks.block_id \o <<".">> \o toks.controls[k].id_control
        \o <<".">> \o toks.controls[k].values_[2].s

CaptionKey(toks) == <<toks.block_type, ".">> \o toks.block_id \o <<".", "CAPTION">>

LocationsOf(Test(_)) ==
    UNION { {inputstore[k].locations[m] : m \in 1..Len(inputstore[k].locations)}
            : k \in {n \in 1..Len(inputstore) : Test(inputstore[n])} }

IsFuzzy(unit) == unit.fuzzy
NotFuzzy(unit) == ~unit.fuzzy
AnyUnit(unit) == TRUE

\* The text of a unit as it goes into the map.
UnitText(unit) == escape_to_rc(IF IsBlank(unit.target) THEN unit.source ELSE unit.target)

\* C9: with includefuzzy false, once makestoredict has run no location that
\* only fuzzy units have is a key of the translation map, so that the text of
\* every key is that of a unit that is not fuzzy; with includefuzzy true every
\* location of every unit is a key.
C9_FuzzyExcluded ==
    template_read =>
        IF includefuzzy
        THEN LocationsOf(AnyUnit) \subseteq Keys(inputdict)
        ELSE /\ Keys(inputdict) \cap (LocationsOf(IsFuzzy) \ LocationsOf(NotFuzzy)) = {}
             /\ \A e \in inputdict :
                    \E k \in 1..Len(inputstore) :
                        /\ ~inputstore[k].fuzzy
                        /\ \E m \in 1..Len(inputstore[k].locations) :
                               inputstore[k].locations[m] = e.key
                        /\ e.value = UnitText(inputstore[k])

\* makestoredict has run without includefuzzy on a catalog with a fuzzy unit
\* and a unit that is not fuzzy, and the fuzzy unit has a location of its own.
C9_Witness ==
    /\ template_read
    /\ ~includefuzzy
    /\ LocationsOf(IsFuzzy) \ LocationsOf(NotFuzzy) # {}
    /\ inputdict # {}

IsValueError(r) ==
    r \in {"ValueError: must specify a target language",
           "ValueError: must have template file for rc files"}

MissingArgument == NotLang(rerc_lang) \/ templatefile.none

\* Nothing of the template has been read and nothing has been written.
Untouched ==
    /\ conv_pc \in {"convertrc", "done"}
    /\ ~template_read
    /\ tmpl_i = 1
    /\ emitted = <<>>
    /\ outputfile = <<>>

\* C10 as stated: convertrc with no target language or no template always
\* ends in a fatal error, before the template is scanned or anything is
\* written, for every catalog and every output threshold.
C10_MissingArgumentFatal ==
    MissingArgument =>
        /\ Untouched
        /\ conv_pc = "done" => IsValueError(returned)

\* C10 amended: convertrc with no target language or no template never
\* scans the template and never writes; it ends in a fatal error, unless an
\* output threshold is set and the catalog does not reach it: then it
\* returns False before it looks at the two arguments.
C10_MissingArgumentFatalOrSkipped ==
    MissingArgument =>
        /\ Untouched
        /\ conv_pc = "done" =>
               \/ IsValueError(returned)
               \/ /\ returned = "False"
                  /\ outputthreshold # NoThreshold
                  /\ ~should_output_store(inputstore, outputthreshold)
        /\ (conv_pc = "done" /\ outputthreshold = NoThreshold) => IsValueError(returned)

\* convertrc has raised for a missing language with a threshold set that the
\* catalog reaches.
C10_Witness ==
    /\ conv_pc = "done"
    /\ NotLang(rerc_lang)
    /\ outputthreshold # NoThreshold
    /\ returned = "ValueError: must specify a target language"

(***************************************************************************)
(* Properties of the extraction of DIALOG controls                         *)
(***************************************************************************)
\* The twelve control names, one by one.
TwelveNames ==
    { <<"A", "U", "T", "O", "C", "H", "E", "C", "K", "B", "O", "X">>,
      <<"A", "U", "T", "O", "R", "A", "D", "I", "O", "B", "U", "T", "T", "O", "N">>,
      <<"C", "A", "P", "T", "I", "O", "N">>,
      <<"C", "H", "E", "C", "K", "B", "O", "X">>,
      <<"C", "T", "E", "X", "T">>,
      <<"C", "O", "N", "T", "R", "O", "L">>,
      <<"D", "E", "F", "P", "U", "S", "H", "B", "U", "T", "T", "O", "N">>,
      <<"G", "R", "O", "U", "P", "B", "O", "X">>,
      LTEXT, PUSHBUTTON,
      <<"R", "A", "D", "I", "O", "B", "U", "T", "T", "O", "N">>,
      <<"R", "T", "E", "X", "T">> }

IsDialogBlock(statement) == statement.block_type \in {"DIALOG", "DIALOGEX"}

\* The identifier is exactly one of the twelve names and the first value is
\* a quoted string.
NamedAndQuoted(control) ==
    /\ control.id_control \in TwelveNames
    /\ Len(control.values_) >= 1
    /\ (StartsWith(control.values_[1], QUOTE) \/ StartsWith(control.values_[1], "'"))

\* The k-th control of the i-th statement gave a unit.
ControlYieldsUnit(i, k) == \E u \in 1..Len(units) : units[u].match = <<i, k>>

\* The dialogs that parse has walked to their end while the flag was true.
WalkedDialogs ==
    {i \in 1..(stmt_i - 1) : IsDialogBlock(results[i]) /\ ExpectedFlag(i - 1)}

\* C11: while the processing flag is true, a control of a DIALOG/DIALOGEX
\* block yields a unit iff its identifier is exactly one of the twelve names
\* and its first value is a quoted string; a control with any other
\* identifier (TEXT, BUTTON, RADIO, BOX, ...) yields no unit.
C11_ControlUnitIffNamedAndQuoted ==
    \A i \in WalkedDialogs : \A k \in 1..Len(results[i].controls) :
        ControlYieldsUnit(i, k) <=> NamedAndQuoted(results[i].controls[k])

(***************************************************************************)
(* Properties of the extraction of MENU blocks.  A node of the popup tree  *)
(* of the i-th statement is named by its path: <<i, k>> is the k-th POPUP   *)
(* of the block, and a path one longer names an element of the popup named *)
(* by the path without its last index; when that element is a nested POPUP *)
(* the same path names the popup.                                          *)
(***************************************************************************)
Front(path) == SubSeq(path, 1, Len(path) - 1)

Last(path) == path[Len(path)]

IsNestedPopup(element) == element.type # "MENUITEM" /\ Len(element.popups) > 0

\* The POPUP that the path names.
RECURSIVE PopupAt(_, _)
PopupAt(statement, path) ==
    IF Len(path) = 2 THEN statement.popups[path[2]]
    ELSE PopupAt(statement, Front(path)).elements[Last(path)].popups[1]

\* The element that a path of length three or more names.
ElementAt(statement, path) == PopupAt(statement, Front(path)).elements[Last(path)]

\* The paths of the popup and of everything below it.
RECURSIVE PathsUnder(_, _)
PathsUnder(popup, path) ==
    {path} \cup UNION { IF IsNestedPopup(popup.elements[e])
                        THEN PathsUnder(popup.elements[e].popups[1], Append(path, e))
                        ELSE {Append(path, e)} : e \in 1..Len(popup.elements) }

MenuPaths(i) ==
    UNION { PathsUnder(results[i].popups[k], <<i, k>>) : k \in 1..Len(results[i].popups) }

IsPopupPath(i, path) == Len(path) = 2 \/ IsNestedPopup(ElementAt(results[i], path))

IsCaptionedPopup(i, path) == IsPopupPath(i, path) /\ PopupAt(results[i], path).caption # <<>>

IsMenuItem(i, path) == Len(path) > 2 /\ ElementAt(results[i], path).type = "MENUITEM"

IsSeparator(i, path) == IsMenuItem(i, path) /\ ElementAt(results[i], path).values_ = <<<<"SEPARATOR">>>>

IsItemWithId(i, path) == IsMenuItem(i, path) /\ Len(ElementAt(results[i], path).values_) >= 2

\* The prefix at a POPUP: MENU.<blockId>, then one "." and caption (spaces
\* as underscores) for each popup that encloses it, outermost first.
RECURSIVE PrefixAt(_, _)
PrefixAt(i, path) ==
    IF Len(path) = 2 THEN <<"MENU", ".", results[i].block_id>>
    ELSE PrefixAt(i, Front(path)) \o <<".">>
           \o ReplaceSpaces(StripQuotes(PopupAt(results[i], Front(path)).caption))

ExpectedMenuUnit(i, path) ==
    IF IsPopupPath(i, path)
    THEN [source |-> escape_to_python(StripQuotes(PopupAt(results[i], path).caption)),
          name |-> PrefixAt(i, path) \o <<".", "POPUP", ".", "CAPTION">>,
          match |-> path]
    ELSE [source |-> escape_to_python(StripQuotes(ElementAt(results[i], path).values_[1])),
          name |-> PrefixAt(i, Front(path)) \o <<".", "MENUITEM", ".">>
                     \o ElementAt(results[i], path).values_[2],
          match |-> path]

\* Source order of two nodes: a popup comes before what it holds, and an
\* element before the elements after it.
ComesBefore(a, b) ==
    \E j \in 1..Len(b) :
        /\ \A m \in 1..(j - 1) : m <= Len(a) /\ a[m] = b[m]
        /\ (j > Len(a) \/ a[j] < b[j])

\* The MENU blocks that parse has walked while the flag was true.
WalkedMenus ==
    {i \in 1..(stmt_i - 1) : results[i].block_type = "MENU" /\ ExpectedFlag(i - 1)}

UnitsOf(i) == {u \in 1..Len(units) : units[u].match[1] = i}

\* C12: extraction of a MENU block of any nesting depth emits exactly one
\* unit for each captioned POPUP (<prefix>.POPUP.CAPTION) and exactly one for
\* each MENUITEM with at least two values (<prefix>.MENUITEM.<id>), in source
\* order, and none for a MENUITEM SEPARATOR; the prefix starts at
\* MENU.<blockId> and each descent into a nested POPUP appends "." plus the
\* enclosing popup's caption with spaces replaced by underscores.
C12_MenuUnitsFollowPopupTree ==
    \A i \in WalkedMenus :
        /\ {units[u].match : u \in UnitsOf(i)}
             = {path \in MenuPaths(i) : IsCaptionedPopup(i, path) \/ IsItemWithId(i, path)}
        /\ \A u \in UnitsOf(i) : units[u] = ExpectedMenuUnit(i, units[u].match)
        /\ \A u, v \in UnitsOf(i) : u < v => ComesBefore(units[u].match, units[v].match)
        /\ \A u \in UnitsOf(i) : ~IsSeparator(i, units[u].match)

\* The scan is over and walked the menu that nests three popups: the item
\* of the innermost popup has its unit under the captions of the two
\* popups around it, the separator has none, and the item after the
\* separator follows.
C12_Witness ==
    /\ ParseDone
    /\ \E i \in WalkedMenus :
        /\ results[i] = MenuDeep
        /\ IsSeparator(i, <<i, 1, 1, 2>>)
        /\ \E u, v \in UnitsOf(i) :
            /\ u < v
            /\ units[u].match = <<i, 1, 1, 1, 1>>
            /\ units[u].name = <<"MENU", ".", "201", ".", "A", "_", "b", ".", "C", ".", "MENUITEM", ".", "5">>
            /\ units[v].match = <<i, 1, 1, 3>>
            /\ units[v].name = <<"MENU", ".", "201", ".", "A", "_", "b", ".", "MENUITEM", ".", "6">>

====
